---- MODULE Spec2Model ----
(***************************************************************************)
(* Model of the specs-workflow task engine and stage resolver.             *)
(*                                                                         *)
(* A text is a sequence of lines.  The regular expressions of              *)
(* taskParser.ts and completeTask.ts are modelled by what they match,      *)
(* character by character, on the sequence of one-character strings of a   *)
(* line or of a task number: every operator whose parameter is called      *)
(* line, d, s, a or b works on characters.  The state, the parsed tasks    *)
(* and the responses hold lines and task numbers as strings; chars(s)      *)
(* gives the characters of a string and Str(cs) the string of characters.  *)
(***************************************************************************)
EXTENDS Integers, Sequences, FiniteSets, TLC

(***************************************************************************)
(* Character classes of the regular expressions.                           *)
(***************************************************************************)
Digits == {"0", "1", "2", "3", "4", "5", "6", "7", "8", "9"}

\* \s (a line never holds a newline: the text is split on it)
Space == {" "}

\* [\s\-*]
ListMarker == {" ", "-", "*"}

\* [.\s:)]  the character class closing the number in numberMatch
NumberEnd == {".", " ", ":", ")"}

\* [.:\s]  the characters stripped after the number in the description
DescSkip == {".", ":", " "}

\* (\s|:|\)|$)  the separator closing the number in containsTaskNumber
TokenEnd == {" ", ":", ")"}

DigitVal(c) ==
    CASE c = "0" -> 0 [] c = "1" -> 1 [] c = "2" -> 2 [] c = "3" -> 3
      [] c = "4" -> 4 [] c = "5" -> 5 [] c = "6" -> 6 [] c = "7" -> 7
      [] c = "8" -> 8 [] c = "9" -> 9

\* collation rank of a character of a task number: '.' sorts before digits
CharRank(c) == IF c = "." THEN 0 ELSE 1 + DigitVal(c)

(***************************************************************************)
(* String helpers (String.prototype).                                      *)
(***************************************************************************)
Min(S) == CHOOSE x \in S : \A y \in S : x <= y
Max(S) == CHOOSE x \in S : \A y \in S : x >= y

\* s.substring(from - 1) in 1-based positions; empty when from > Len(s)
Tail_(s, from) == SubSeq(s, from, Len(s))

\* does t occur in s at position p
OccursAt(s, t, p) ==
    /\ p >= 1
    /\ p + Len(t) - 1 <= Len(s)
    /\ \A k \in 1..Len(t) : s[p + k - 1] = t[k]

\* first position from which every character is outside class C (greedy C*)
SkipClass(s, C, from) ==
    Min({p \in from..(Len(s) + 1) : p = Len(s) + 1 \/ s[p] \notin C})

\* String.prototype.trim
Trim(s) ==
    LET keep == {p \in 1..Len(s) : s[p] \notin Space}
    IN  IF keep = {} THEN <<>> ELSE SubSeq(s, Min(keep), Max(keep))

\* s.split("."): the dot-separated segments of a task number
RECURSIVE SplitDot(_)
SplitDot(s) ==
    LET dots == {p \in 1..Len(s) : s[p] = "."}
    IN  IF dots = {} THEN <<s>>
        ELSE <<SubSeq(s, 1, Min(dots) - 1)>> \o SplitDot(Tail_(s, Min(dots) + 1))

\* s.includes(".")
HasDot(s) == \E p \in 1..Len(s) : s[p] = "."

\* s.lastIndexOf("."), 1-based, 0 when there is none
LastDot(s) ==
    LET dots == {p \in 1..Len(s) : s[p] = "."}
    IN  IF dots = {} THEN 0 ELSE Max(dots)

\* parseInt of a run of digits
RECURSIVE ParseInt(_)
ParseInt(s) ==
    IF Len(s) = 0 THEN 0
    ELSE 10 * ParseInt(SubSeq(s, 1, Len(s) - 1)) + DigitVal(s[Len(s)])

(***************************************************************************)
(* Checkboxes.                                                             *)
(***************************************************************************)
\* /\[([xX ])\]/ matches at position p
CheckboxAt(line, p) ==
    /\ p + 2 <= Len(line)
    /\ line[p] = "["
    /\ line[p + 1] \in {"x", "X", " "}
    /\ line[p + 2] = "]"

CheckboxPositions(line) == {p \in 1..Len(line) : CheckboxAt(line, p)}

\* line.match(/\[([xX ])\]/): position of the first checkbox, 0 when none
checkboxMatch(line) ==
    IF CheckboxPositions(line) = {} THEN 0 ELSE Min(CheckboxPositions(line))

\* line.replace(/\[([xX ])\]/, ""): the first checkbox removed
RemoveFirstCheckbox(line) ==
    LET p == checkboxMatch(line)
    IN  IF p = 0 THEN line
        ELSE SubSeq(line, 1, p - 1) \o Tail_(line, p + 3)

\* line.replace(/\[[xX ]\]/g, ""): every checkbox removed, left to right
RECURSIVE RemoveAllCheckboxes(_)
RemoveAllCheckboxes(line) ==
    LET p == checkboxMatch(line)
    IN  IF p = 0 THEN line
        ELSE SubSeq(line, 1, p - 1) \o RemoveAllCheckboxes(Tail_(line, p + 3))

\* line.includes("[ ]")
UncheckedAt(line, p) == OccursAt(line, <<"[", " ", "]">>, p)
IncludesUnchecked(line) == \E p \in 1..Len(line) : UncheckedAt(line, p)

\* line.replace("[ ]", "[x]"): the first unchecked glyph becomes checked
FlipFirstUnchecked(line) ==
    LET ps == {p \in 1..Len(line) : UncheckedAt(line, p)}
    IN  IF ps = {} THEN line
        ELSE [line EXCEPT ![Min(ps) + 1] = "x"]

(***************************************************************************)
(* Task numbers inside a line: \d+(?:\.\d+)*                               *)
(***************************************************************************)
\* the positions e at which a number starting at position r may end
NumberEnds(line, r) ==
    {e \in r..Len(line) :
        /\ line[r] \in Digits
        /\ line[e] \in Digits
        /\ \A k \in r..e : line[k] \in Digits \cup {"."}
        /\ \A k \in r..(e - 1) : ~(line[k] = "." /\ line[k + 1] = ".")}

\* /^[\s\-*]*\[([xX ])\][\s\-*]*(\d+(?:\.\d+)*)[.\s:)]/
\* the longest number the backtracking accepts, <<>> when there is no match
numberMatch(line) ==
    LET p    == SkipClass(line, ListMarker, 1)
        r    == SkipClass(line, ListMarker, p + 3)
        ends == {e \in NumberEnds(line, r) :
                    e + 1 <= Len(line) /\ line[e + 1] \in NumberEnd}
    IN  IF CheckboxAt(line, p) /\ r <= Len(line) /\ ends # {}
        THEN SubSeq(line, r, Max(ends))
        ELSE <<>>

\* /\[([xX ])\][\s\-*]*(\d+(?:\.\d+)*)/ : leftmost checkbox followed by a
\* number, the number taken greedily; <<>> when there is no match
fallbackMatch(line) ==
    LET ok(p) == LET r == SkipClass(line, ListMarker, p + 3)
                 IN  r <= Len(line) /\ NumberEnds(line, r) # {}
        ps    == {p \in CheckboxPositions(line) : ok(p)}
    IN  IF ps = {} THEN <<>>
        ELSE LET r == SkipClass(line, ListMarker, Min(ps) + 3)
             IN  SubSeq(line, r, Max(NumberEnds(line, r)))

(***************************************************************************)
(* parseTasksFromContent, phase 1, on the characters of one line.          *)
(***************************************************************************)
\* the number of a checkbox line: numberMatch, else fallbackMatch
taskNumberOf(line) ==
    IF numberMatch(line) # <<>> THEN numberMatch(line) ELSE fallbackMatch(line)

\* checkboxMatch[1].toLowerCase() === "x", on the first checkbox of the line
isChecked(line) == line[checkboxMatch(line) + 1] \in {"x", "X"}

\* description.replace(new RegExp(`^[\s\-*]*${escapedTaskNumber}[.:\s]*`), "")
StripNumber(d, num) ==
    LET p == SkipClass(d, ListMarker, 1)
    IN  IF OccursAt(d, num, p)
        THEN Tail_(d, SkipClass(d, DescSkip, p + Len(num)))
        ELSE d

\* description.replace(/^[\s\-*]+/, "").trim()
StripMarkers(d) == Trim(Tail_(d, SkipClass(d, ListMarker, 1)))

\* the description left on the own line of the task numbered taskNumber
ownDescription(line, taskNumber) ==
    StripMarkers(StripNumber(RemoveFirstCheckbox(line), taskNumber))

\* what the line gives a task above it whose own description is empty:
\* its trimmed text, unless it is empty, holds a checkbox or starts with '#'
asNextLine(line) ==
    LET nextLine == Trim(line)
    IN  IF nextLine # <<>> /\ checkboxMatch(nextLine) = 0 /\ nextLine[1] # "#"
        THEN nextLine
        ELSE <<>>

(***************************************************************************)
(* findMainTaskTitle, on the characters of one line.                       *)
(***************************************************************************)
\* /^#+\s*(\d+)\.\s*(.+)$/ : <<number, title>> or <<>>
headerMatch(line) ==
    LET h == SkipClass(line, {"#"}, 1)
        s == SkipClass(line, Space, h)
        d == SkipClass(line, Digits, s)
        t == SkipClass(line, Space, d + 1)
    IN  IF /\ h > 1 /\ d > s /\ d < Len(line) /\ line[d] = "."
        THEN <<SubSeq(line, s, d - 1), Trim(Tail_(line, t))>>
        ELSE <<>>

\* /^(\d+)\.\s*\*\*(.+?)\*\*$/ : <<number, title>> or <<>>
boldMatch(line) ==
    LET d == SkipClass(line, Digits, 1)
        t == SkipClass(line, Space, d + 1)
        n == Len(line)
    IN  IF /\ d > 1 /\ d <= n /\ line[d] = "."
           /\ OccursAt(line, <<"*", "*">>, t)
           /\ n - 2 >= t + 2
           /\ OccursAt(line, <<"*", "*">>, n - 1)
        THEN <<SubSeq(line, 1, d - 1), Trim(SubSeq(line, t + 2, n - 2))>>
        ELSE <<>>

\* new RegExp(`^(\\s*)${task.number}\\.\\s*-\\s*\\[[ x]\\]\\s*`), the first
\* format of formatTaskForFullDisplay: the number, a dot, a dash and the
\* checkbox (a dot of the number stands unescaped in the pattern)
taskPattern1(line, number) ==
    LET s == SkipClass(line, Space, 1)
        d == s + Len(number)
        m == SkipClass(line, Space, d + 1)
        b == SkipClass(line, Space, m + 1)
    IN  /\ b + 2 <= Len(line)
        /\ \A k \in 1..Len(number) : number[k] = "." \/ line[s + k - 1] = number[k]
        /\ line[d] = "."
        /\ line[m] = "-"
        /\ line[b] = "["
        /\ line[b + 1] \in {" ", "x"}
        /\ line[b + 2] = "]"

(***************************************************************************)
(* completeTask.ts, on the characters of a line and of a task number.      *)
(***************************************************************************)
\* a faulty containsTaskNumber: the number found anywhere in the line, with
\* no boundary before or after it
containsTaskNumber_unbounded(line, taskNumber) ==
    LET l == RemoveAllCheckboxes(line)
    IN  \E p \in 1..Len(l) : OccursAt(l, taskNumber, p)

\* `(^|[\s\-*]+)${n}\.?(\s|:|\)|$)` or `\(${n}\.?\)` found in the line once
\* its checkboxes are removed
containsTaskNumber(line, taskNumber) ==
    LET l      == RemoveAllCheckboxes(line)
        n      == Len(taskNumber)
        End(q) == q = Len(l) + 1 \/ (q <= Len(l) /\ l[q] \in TokenEnd)
        Dot(q) == q <= Len(l) /\ l[q] = "."
        Par(q) == q <= Len(l) /\ l[q] = ")"
    IN  \E p \in 1..Len(l) :
            /\ OccursAt(l, taskNumber, p)
            /\ \/ /\ p = 1 \/ l[p - 1] \in ListMarker
                  /\ End(p + n) \/ (Dot(p + n) /\ End(p + n + 1))
               \/ /\ p > 1 /\ l[p - 1] = "("
                  /\ Par(p + n) \/ (Dot(p + n) /\ Par(p + n + 1))

\* a.localeCompare(b) < 0 on task numbers
RECURSIVE LocaleLess(_, _)
LocaleLess(a, b) ==
    IF b = <<>> THEN FALSE
    ELSE IF a = <<>> THEN TRUE
    ELSE IF a[1] # b[1] THEN CharRank(a[1]) < CharRank(b[1])
    ELSE LocaleLess(Tail(a), Tail(b))

(***************************************************************************)
(* Bounds and inputs.                                                      *)
(***************************************************************************)
MaxLines == 3
MaxBatch == 2
MaxCalls == 2
MaxConcLines == 2
MaxConcBatch == 1

Box(g) == <<"[", g, "]">>

\* "<marker> [g] <number><rest>"
TaskLine(marker, g, number, rest) ==
    <<marker, " ">> \o Box(g) \o <<" ">> \o number \o rest

N1   == <<"1">>
N11  == <<"1", "1">>
N2   == <<"2">>
N2_1 == <<"2", ".", "1">>
N2_2 == <<"2", ".", "2">>
N2_1_1 == <<"2", ".", "1", ".", "1">>

Title    == <<" ", "A">>
DotTitle == <<".", " ", "A">>
\* a title after a comma: the line matcher does not find the number
CommaTitle == <<",", " ", "A">>
\* a title that mentions task 2.2
SeeN2_2  == <<" ", "s", "e", "e", " ">> \o N2_2

\* the lines tasks.md is written with
Library ==
    {TaskLine("-", " ", N1, Title),          \* - [ ] 1 A
     TaskLine("-", " ", N11, Title),         \* - [ ] 11 A
     TaskLine("-", " ", N2, DotTitle),       \* - [ ] 2. A
     TaskLine("-", "x", N2, DotTitle),       \* - [x] 2. A
     TaskLine("-", " ", N2_1, Title),        \* - [ ] 2.1 A
     TaskLine("-", "x", N2_1, Title),        \* - [x] 2.1 A
     TaskLine("-", " ", N2_2, Title),        \* - [ ] 2.2 A
     TaskLine("+", " ", N2_2, CommaTitle),   \* + [ ] 2.2, A
     TaskLine("-", " ", N2_1, SeeN2_2),      \* - [ ] 2.1 see 2.2
     TaskLine("-", " ", N2_1_1, Title)}      \* - [ ] 2.1.1 A

N15   == <<"1", "5">>
N15_1 == <<"1", "5", ".", "1">>
N15_2 == <<"1", "5", ".", "2">>
N2_1_0 == <<"2", ".", "1", ".", "0">>

\* more lines for the parser: subtasks without a main task, a number that
\* ends in a zero segment, a number written before the checkbox, a header and
\* a bold line that give task 15 a title
ParserLibrary ==
    {TaskLine("-", " ", N15_1, Title),                     \* - [ ] 15.1 A
     TaskLine("-", "x", N15_2, Title),                     \* - [x] 15.2 A
     TaskLine("-", " ", N2_1_0, Title),                    \* - [ ] 2.1.0 A
     N1 \o <<".", " ", "-", " ">> \o Box(" ") \o Title,     \* 1. - [ ] A
     <<"#", "#", " ">> \o N15 \o <<".", " ", "T">>,         \* ## 15. T
     N15 \o <<".", " ", "*", "*", "B", "*", "*">>}         \* 15. **B**

\* the lines the engine can turn a line of the library into
RECURSIVE FlipClosure(_)
FlipClosure(S) ==
    LET T == S \cup {FlipFirstUnchecked(l) : l \in S}
    IN  IF T = S THEN S ELSE FlipClosure(T)

LineChars == FlipClosure(Library)

\* a task number and what is left of it before each of its dots
DotPrefixes(n) == {n} \cup {SubSeq(n, 1, p - 1) : p \in {q \in 1..Len(n) : n[q] = "."}}

\* the task numbers the engine can meet: those asked for, those of the
\* lines, and their parents
NumberChars == UNION {DotPrefixes(n) : n \in {N1, N11, N2, N2_1, N2_2, N2_1_1, N2_1_0, N15_1, N15_2}}

\* the string made of the characters cs
RECURSIVE Str(_)
Str(cs) == IF cs = <<>> THEN "" ELSE cs[1] \o Str(Tail(cs))

\* the strings of a tuple of character sequences
Strs(css) == [k \in 1..Len(css) |-> Str(css[k])]

\* from the string of each member of known to its characters
Spelled(known) == [s \in {Str(cs) : cs \in known} |-> CHOOSE cs \in known : Str(cs) = s]

CharsOf == Spelled(LineChars \cup ParserLibrary \cup NumberChars \cup {<<>>}) @@ <<>>

\* the characters of a line or of a task number
chars(s) == CharsOf[s]

Lines   == {Str(l) : l \in LineChars}
Numbers == {Str(n) : n \in NumberChars}

\* the numbers a caller asks for
TaskIds == {Str(N1), Str(N2), Str(N2_1), Str(N2_2), Str(N2_1_1)}

SeqsUpTo(S, n) == UNION {[1..k -> S] : k \in 0..n}

Documents == SeqsUpTo({Str(l) : l \in Library}, MaxLines) \ {<<>>}

Batches == SeqsUpTo(TaskIds, MaxBatch)

\* the lines parseTasksFile can meet, and the files it reads
ParserLines == Lines \cup {Str(l) : l \in ParserLibrary}

ParserDocuments == SeqsUpTo({Str(l) : l \in Library \cup ParserLibrary}, MaxLines)

(***************************************************************************)
(* parseTasksFromContent, phase 1: one task per checkbox line.             *)
(***************************************************************************)
\* everything the parser reads from one line, given its characters and the
\* task number found in them
scanned(line, taskNumber) ==
    [found       |-> checkboxMatch(line) # 0 /\ taskNumber # <<>>,
     number      |-> Str(taskNumber),
     description |-> IF checkboxMatch(line) # 0 /\ taskNumber # <<>>
                     THEN Str(ownDescription(line, taskNumber)) ELSE "",
     checked     |-> checkboxMatch(line) # 0 /\ taskNumber # <<>> /\ isChecked(line),
     asNextLine  |-> Str(asNextLine(line)),
     headerMatch |-> Strs(headerMatch(line)),
     boldMatch   |-> Strs(boldMatch(line))]

scanChars(line) == scanned(line, taskNumberOf(line))

scanLine(line) == scanChars(chars(line))

\* scanLine, computed once per line
ScannedLines == [l \in ParserLines |-> scanLine(l)] @@ <<>>

\* the lines of a text as the parser reads them
scansOf(lines) == [i \in 1..Len(lines) |-> ScannedLines[lines[i]]]

descriptionOf(scans, i) ==
    IF scans[i].description # "" THEN scans[i].description
    ELSE IF i + 1 <= Len(scans) THEN scans[i + 1].asNextLine
    ELSE ""

\* line i yields a task: it has a checkbox, a number and a description.
\* (The line consumed as a description holds no checkbox, so skipping it
\* with i++ drops no task.)
pushesTask(scans, i) == scans[i].found /\ descriptionOf(scans, i) # ""

scannedTask(scans, i) ==
    [number      |-> scans[i].number,
     description |-> descriptionOf(scans, i),
     checked     |-> scans[i].checked,
     subtasks    |-> <<>>,
     isVirtual   |-> FALSE]

RECURSIVE scanFrom(_, _)
scanFrom(scans, i) ==
    IF i > Len(scans) THEN <<>>
    ELSE (IF pushesTask(scans, i) THEN <<scannedTask(scans, i)>> ELSE <<>>)
         \o scanFrom(scans, i + 1)

\* allTasks after phase 1
allTasksOf(lines) == scanFrom(scansOf(lines), 1)

IsTaskLine(lines, i) == pushesTask(scansOf(lines), i)

\* the title a header or a bold line gives task taskNumber, "" for null
findMainTaskTitle(scans, taskNumber) ==
    LET hs == {i \in 1..Len(scans) :
                 scans[i].headerMatch # <<>> /\ scans[i].headerMatch[1] = taskNumber}
        bs == {i \in 1..Len(scans) :
                 scans[i].boldMatch # <<>> /\ scans[i].boldMatch[1] = taskNumber}
    IN  IF hs # {} THEN scans[Min(hs)].headerMatch[2]
        ELSE IF bs # {} THEN scans[Min(bs)].boldMatch[2]
        ELSE ""

\* `Task Group ${parentNumber}`
TaskGroupTitle(n) == "Task Group " \o n

(***************************************************************************)
(* parseTasksFromContent, phase 2: hierarchy, derived completion, sorting. *)
(***************************************************************************)
\* a stable sort, as Array.prototype.sort is: element i goes after every
\* element that is smaller, and after every equal element that precedes it;
\* less[i, j] tells whether the comparator puts s[i] before s[j]
SortedBy(s, less) ==
    LET n    == Len(s)
        elem == [i \in 1..n |-> s[i]] @@ <<>>
        lt   == less @@ <<>>
        rank == [i \in 1..n |->
                    1 + Cardinality({j \in 1..n :
                            \/ lt[j, i]
                            \/ (~lt[i, j] /\ j < i)})] @@ <<>>
    IN  [k \in 1..n |-> elem[CHOOSE i \in 1..n : rank[i] = k]]

\* number.split("."), computed once per number
SplitNumbers == [n \in Numbers |-> SplitDot(chars(n))] @@ <<>>

Parts(number) == SplitNumbers[number]

\* number.includes(".")
IsSubtaskNumber(number) == Len(Parts(number)) > 1

\* rootTasks.sort((a, b) => parseInt(a.number) - parseInt(b.number))
RootLess(a, b) == ParseInt(chars(a.number)) < ParseInt(chars(b.number))

\* (partsA[i] || 0) - (partsB[i] || 0) over the longer of the two
PartAt(parts, i) == IF i <= Len(parts) THEN ParseInt(parts[i]) ELSE 0

PartsLess(partsA, partsB) ==
    LET n  == IF Len(partsA) >= Len(partsB) THEN Len(partsA) ELSE Len(partsB)
        df == {i \in 1..n : PartAt(partsA, i) # PartAt(partsB, i)}
    IN  df # {} /\ PartAt(partsA, Min(df)) < PartAt(partsB, Min(df))

\* the comparator of task.subtasks.sort
SubtaskLess(a, b) == PartsLess(Parts(a.number), Parts(b.number))

\* parts[0] of a dotted number
parentNumberOf(number) == Str(Parts(number)[1])

\* the distinct elements of a sequence, in order of first appearance
RECURSIVE Distinct(_)
Distinct(s) ==
    IF s = <<>> THEN <<>>
    ELSE LET r == Distinct(SubSeq(s, 1, Len(s) - 1))
             x == s[Len(s)]
         IN  IF \E k \in 1..Len(r) : r[k] = x THEN r ELSE Append(r, x)

IsTopLevel(task) == ~IsSubtaskNumber(task.number)

IsSubtask(task) == IsSubtaskNumber(task.number)

\* the virtual parent of number n, betterTitle being "" for null
virtualParent(n, betterTitle) ==
    [number      |-> n,
     description |-> IF betterTitle # "" THEN betterTitle ELSE TaskGroupTitle(n),
     checked     |-> FALSE,
     subtasks    |-> <<>>,
     isVirtual   |-> TRUE]

\* a faulty second loop: a virtual parent is created at every subtask that
\* misses its main task
virtualParentsOf_perSubtask(topLevel, subs, scans) ==
    LET parents == [k \in 1..Len(subs) |-> parentNumberOf(subs[k].number)]
        missing == SelectSeq(parents,
                       LAMBDA n : \A j \in 1..Len(topLevel) : topLevel[j].number # n)
    IN  [k \in 1..Len(missing) |->
            virtualParent(missing[k], findMainTaskTitle(scans, missing[k]))]

\* the virtual parents, each created at the first subtask that misses its
\* main task
virtualParentsOf(topLevel, subs, scans) ==
    LET parents == Distinct([k \in 1..Len(subs) |-> parentNumberOf(subs[k].number)])
        missing == SelectSeq(parents,
                       LAMBDA n : \A j \in 1..Len(topLevel) : topLevel[j].number # n)
    IN  [k \in 1..Len(missing) |->
            virtualParent(missing[k], findMainTaskTitle(scans, missing[k]))]

\* a faulty second loop: every root of a number gets the subtasks of the number
subtasksOf_everyRoot(rootTasks, j, subs) ==
    SelectSeq(subs, LAMBDA t : parentNumberOf(t.number) = rootTasks[j].number)

\* the subtasks pushed to rootTasks[j]: taskMap keeps the last root set
\* under a number, and that root gets the subtasks of the number
subtasksOf(rootTasks, j, subs) ==
    IF \A k \in (j + 1)..Len(rootTasks) : rootTasks[k].number # rootTasks[j].number
    THEN SelectSeq(subs, LAMBDA t : parentNumberOf(t.number) = rootTasks[j].number)
    ELSE <<>>

sortedSubtasks(subtasks) ==
    SortedBy(subtasks,
             [a, b \in 1..Len(subtasks) |-> SubtaskLess(subtasks[a], subtasks[b])])

\* a faulty third loop: a root keeps the completion its own line gives it
withSubtasks_ownGlyph(task, subtasks) ==
    [task EXCEPT !.subtasks = sortedSubtasks(subtasks)]

\* a root with its subtasks: its completion derived from theirs, and they
\* sorted
withSubtasks(task, subtasks) ==
    [task EXCEPT
        !.subtasks = sortedSubtasks(subtasks),
        !.checked  = IF subtasks # <<>>
                     THEN \A k \in 1..Len(subtasks) : subtasks[k].checked
                     ELSE @]

sortedRoots(rootTasks) ==
    SortedBy(rootTasks,
             [a, b \in 1..Len(rootTasks) |-> RootLess(rootTasks[a], rootTasks[b])])

\* phase 2 from rootTasks as the two loops leave it and from the subtasks
assembled(rootTasks, subs) ==
    sortedRoots([j \in 1..Len(rootTasks) |->
                    withSubtasks(rootTasks[j], subtasksOf(rootTasks, j, subs))] @@ <<>>)

withVirtualParents(topLevel, subs, scans) ==
    assembled(topLevel \o virtualParentsOf(topLevel, subs, scans), subs)

\* phase 2 from allTasks
buildHierarchy(allTasks, scans) ==
    withVirtualParents(SelectSeq(allTasks, IsTopLevel), SelectSeq(allTasks, IsSubtask),
                       scans)

parseScans(scans) == buildHierarchy(scanFrom(scans, 1), scans)

parseTasksFromContent(lines) == parseScans(scansOf(lines))

\* parseTasksFromContent, computed once per text: the texts are kept in a
\* tree indexed line by line
RECURSIVE ParsedFrom(_)
ParsedFrom(prefix) ==
    [tasks |-> parseTasksFromContent(prefix),
     next  |-> IF Len(prefix) < MaxLines
               THEN [l \in Lines |-> ParsedFrom(Append(prefix, l))] @@ <<>>
               ELSE <<>>]

ParsedTasks == ParsedFrom(<<>>)

RECURSIVE ParsedAt(_, _, _)
ParsedAt(node, content, i) ==
    IF i > Len(content) THEN node.tasks
    ELSE ParsedAt(node.next[content[i]], content, i + 1)

tasksOf(content) == ParsedAt(ParsedTasks, content, 1)

\* a faulty getFirstUncompletedTask: an unchecked root is returned before
\* its subtasks are looked at
RECURSIVE getFirstUncompletedTask_rootFirst(_)
getFirstUncompletedTask_rootFirst(tasks) ==
    IF tasks = <<>> THEN <<>>
    ELSE LET task == tasks[1]
             open == SelectSeq(task.subtasks, LAMBDA st : ~st.checked)
         IN  IF ~task.checked THEN <<task>>
             ELSE IF open # <<>> THEN <<open[1]>>
             ELSE getFirstUncompletedTask_rootFirst(Tail(tasks))

\* a faulty getFirstUncompletedTask: the roots that have subtasks are passed over
RECURSIVE getFirstUncompletedTask_childlessOnly(_)
getFirstUncompletedTask_childlessOnly(tasks) ==
    IF tasks = <<>> THEN <<>>
    ELSE IF tasks[1].subtasks = <<>> /\ ~tasks[1].checked THEN <<tasks[1]>>
    ELSE getFirstUncompletedTask_childlessOnly(Tail(tasks))

\* getFirstUncompletedTask: <<task>>, or <<>> for null
RECURSIVE getFirstUncompletedTask(_)
getFirstUncompletedTask(tasks) ==
    IF tasks = <<>> THEN <<>>
    ELSE LET task == tasks[1]
             open == SelectSeq(task.subtasks, LAMBDA st : ~st.checked)
         IN  IF task.subtasks # <<>> /\ open # <<>> THEN <<open[1]>>
             ELSE IF ~task.checked THEN <<task>>
             ELSE getFirstUncompletedTask(Tail(tasks))

(***************************************************************************)
(* completeTask.ts: lookup, line matcher, single mutation.                 *)
(***************************************************************************)
\* findTaskByNumber: depth-first, first match; <<task>> or <<>> for null
RECURSIVE findTaskByNumber(_, _)
findTaskByNumber(tasks, targetNumber) ==
    IF tasks = <<>> THEN <<>>
    ELSE IF tasks[1].number = targetNumber THEN <<tasks[1]>>
    ELSE IF findTaskByNumber(tasks[1].subtasks, targetNumber) # <<>>
         THEN findTaskByNumber(tasks[1].subtasks, targetNumber)
    ELSE findTaskByNumber(Tail(tasks), targetNumber)

\* containsTaskNumber, computed once per line and number
LineContains ==
    [l \in Lines, n \in Numbers |-> containsTaskNumber(chars(l), chars(n))] @@ <<>>

\* line.includes("[ ]") and line.replace("[ ]", "[x]"), computed once per line
MarkedLines ==
    [l \in Lines |->
        [includesUnchecked |-> IncludesUnchecked(chars(l)),
         replaced          |-> Str(FlipFirstUnchecked(chars(l)))]] @@ <<>>

\* s.substring(0, s.lastIndexOf(".")) on characters, empty without a dot
beforeLastDot(s) == SubSeq(s, 1, LastDot(s) - 1)

\* taskNumber.substring(0, taskNumber.lastIndexOf(".")), empty without a dot
parentNumber(taskNumber) == Str(beforeLastDot(chars(taskNumber)))

\* the numbers marked for a task whose parent number is parentNumber_: the
\* task, and its parent when every other subtask of the parent is checked.
\* (A task's subtasks are <<>> where the code leaves the field undefined: a
\* task given subtasks by phase 2 has at least one.)
numbersWithParent(tasks, taskNumber, parentNumber_) ==
    LET parentTask == findTaskByNumber(tasks, parentNumber_)
        allSiblingsCompleted ==
            \A k \in 1..Len(parentTask[1].subtasks) :
                parentTask[1].subtasks[k].number # taskNumber
                    => parentTask[1].subtasks[k].checked
    IN  IF /\ parentNumber_ # ""
           /\ parentTask # <<>>
           /\ parentTask[1].subtasks # <<>>
           /\ allSiblingsCompleted
        THEN {taskNumber, parentNumber_}
        ELSE {taskNumber}

\* the numbers markTaskAsCompleted marks
numbersToMark(tasks, taskNumber) ==
    numbersWithParent(tasks, taskNumber, parentNumber(taskNumber))

\* the lines markTaskAsCompleted flips for the numbers of marks
linesToMark(content, marks) ==
    {i \in 1..Len(content) :
        /\ MarkedLines[content[i]].includesUnchecked
        /\ \E num \in marks : LineContains[content[i], num]}

\* a faulty loop that stops at the last marked line and joins the lines it
\* has visited
flipped_truncated(content, marked) ==
    IF marked = {} THEN <<>>
    ELSE [i \in 1..Max(marked) |->
            IF i \in marked THEN MarkedLines[content[i]].replaced ELSE content[i]]

\* the content with the lines of marked flipped, <<>> when there is none
flipped(content, marked) ==
    IF marked = {} THEN <<>>
    ELSE [i \in 1..Len(content) |->
            IF i \in marked THEN MarkedLines[content[i]].replaced ELSE content[i]]

\* markTaskAsCompleted once the content is parsed
markedIn(content, taskNumber, tasks) ==
    IF findTaskByNumber(tasks, taskNumber) = <<>> THEN <<>>
    ELSE flipped(content, linesToMark(content, numbersToMark(tasks, taskNumber)))

\* markTaskAsCompleted: the updated content, <<>> for null
markTaskAsCompleted(content, taskNumber) ==
    markedIn(content, taskNumber, tasksOf(content))

(***************************************************************************)
(* completeBatchTasks: classification and ordering.                        *)
(***************************************************************************)
\* a faulty classify: the subtasks of the target are not looked at
classify_ignoringSubtasks(tasks, taskNum) ==
    LET targetTask == findTaskByNumber(tasks, taskNum)
    IN  IF targetTask = <<>> THEN "Task does not exist"
        ELSE IF targetTask[1].checked THEN "already"
        ELSE "can"

\* the branch taken for one number: a rejection reason, "already" or "can"
classify(tasks, taskNum) ==
    LET targetTask == findTaskByNumber(tasks, taskNum)
    IN  IF targetTask = <<>> THEN "Task does not exist"
        ELSE IF targetTask[1].checked THEN "already"
        ELSE IF \E k \in 1..Len(targetTask[1].subtasks) :
                    ~targetTask[1].subtasks[k].checked
             THEN "Has uncompleted subtasks"
        ELSE "can"

alreadyCompletedOf(tasks, taskNumbers_) ==
    LET Is(n) == classify(tasks, n) = "already"
    IN  SelectSeq(taskNumbers_, Is)

\* a faulty canBeCompleted: the completed tasks are taken to be completed again
canBeCompletedOf_withCompleted(tasks, taskNumbers_) ==
    LET Is(n) == classify(tasks, n) \in {"already", "can"}
    IN  SelectSeq(taskNumbers_, Is)

canBeCompletedOf(tasks, taskNumbers_) ==
    LET Is(n) == classify(tasks, n) = "can"
    IN  SelectSeq(taskNumbers_, Is)

\* a faulty cannotBeCompleted: only the numbers of no task are rejected
cannotBeCompletedOf_missingOnly(tasks, taskNumbers_) ==
    LET Is(n) == findTaskByNumber(tasks, n) = <<>>
        bad   == SelectSeq(taskNumbers_, Is)
    IN  [k \in 1..Len(bad) |->
            [taskNumber |-> bad[k], reason |-> "Task does not exist"]]

cannotBeCompletedOf(tasks, taskNumbers_) ==
    LET Is(n) == classify(tasks, n) \notin {"already", "can"}
        bad   == SelectSeq(taskNumbers_, Is)
    IN  [k \in 1..Len(bad) |->
            [taskNumber |-> bad[k], reason |-> classify(tasks, bad[k])]]

\* a.split(".").length
Depth(n) == Len(Parts(n))

\* a faulty comparator: deeper first, and nothing for equal depths
SortLess_depthOnly(a, b) == Depth(b) < Depth(a)

\* the comparator of sortedTaskNumbers: deeper first, then by string
SortLess(a, b) ==
    IF Depth(a) # Depth(b) THEN Depth(b) < Depth(a)
    ELSE LocaleLess(chars(a), chars(b))

sortedTaskNumbersOf(canBeCompleted) ==
    SortedBy(canBeCompleted,
             [a, b \in 1..Len(canBeCompleted) |->
                 SortLess(canBeCompleted[a], canBeCompleted[b])])

\* nextTask of a response: <<[number, description]>>, <<>> for undefined
nextTaskFrom(nextTask) ==
    IF nextTask = <<>> THEN <<>>
    ELSE <<[number |-> nextTask[1].number, description |-> nextTask[1].description]>>

nextTaskIn(allTasks) == nextTaskFrom(getFirstUncompletedTask(allTasks))

nextTaskOf(content) == nextTaskIn(tasksOf(content))

\* the execution loop as a function: the content once the numbers are marked
\* in turn, <<>> when one of them cannot be marked
RECURSIVE markedInTurn(_, _)
markedInTurn(content, numbers) ==
    IF numbers = <<>> THEN content
    ELSE LET updatedContent == markTaskAsCompleted(content, Head(numbers))
         IN  IF updatedContent = <<>> THEN <<>>
             ELSE markedInTurn(updatedContent, Tail(numbers))

\* completeBatchTasks as a function of the file and of the numbers: whether
\* it succeeds, what it completes, and what it leaves in the file
completeBatchTasks(content, ns) ==
    LET tasks  == tasksOf(content)
        cannot == cannotBeCompletedOf(tasks, ns)
        can    == canBeCompletedOf(tasks, ns)
        done   == alreadyCompletedOf(tasks, ns)
        sorted == sortedTaskNumbersOf(can)
        final  == markedInTurn(content, sorted)
    IN  IF cannot # <<>> \/ final = <<>>
        THEN [success |-> FALSE, completedTasks |-> <<>>, tasksFile |-> content]
        ELSE IF can = <<>> /\ done # <<>>
        THEN [success |-> TRUE, completedTasks |-> <<>>, tasksFile |-> content]
        ELSE [success |-> TRUE, completedTasks |-> sorted, tasksFile |-> final]

NoResult == [success |-> FALSE, completedTasks |-> <<>>, alreadyCompleted |-> <<>>,
             failedTasks |-> <<>>, nextTask |-> <<>>]

(***************************************************************************)
(* confirmationStatus.ts and documentStatus.ts: the stage store.           *)
(***************************************************************************)
StageNames == {"requirements", "design", "tasks"}

\* the two maps of defaultStatus
NoFlags == [s \in StageNames |-> FALSE]

Flags == [StageNames -> BOOLEAN]

\* What .workflow-confirmations.json holds.  format is
\*   "absent"        there is no file;
\*   "invalid"       the file is not JSON;
\*   "flat"          the old format, the confirmed flags at top level;
\*   "full"          a confirmed map and a skipped map;
\*   "confirmedOnly" a confirmed map and no skipped map.
\* A flag the file does not hold is FALSE here: the code negates or stores
\* the undefined it reads for such a flag.
ConfirmationFile(format, confirmed, skipped) ==
    [format |-> format, confirmed |-> confirmed, skipped |-> skipped]

ConfirmationFiles ==
    {ConfirmationFile(f, NoFlags, NoFlags) : f \in {"absent", "invalid"}}
    \cup {ConfirmationFile("flat", c, NoFlags) : c \in Flags}
    \cup {ConfirmationFile("confirmedOnly", c, NoFlags) : c \in Flags}
    \cup {ConfirmationFile("full", c, s) : c \in Flags, s \in Flags}

\* the files a spec directory starts with: none, a damaged one, one of an
\* older version, one missing its skipped map, a fresh one
InitialFiles ==
    {ConfirmationFile(f, NoFlags, NoFlags) :
        f \in {"absent", "invalid", "confirmedOnly", "full"}}
    \cup {ConfirmationFile("flat", c, NoFlags) : c \in Flags}

\* getWorkflowConfirmations: the record read, skippedDefined telling whether
\* it has a skipped map
getWorkflowConfirmations(file) ==
    IF file.format \in {"absent", "invalid"}
    THEN [confirmed |-> NoFlags, skipped |-> NoFlags, skippedDefined |-> TRUE]
    ELSE IF file.format = "flat"
    THEN [confirmed |-> file.confirmed, skipped |-> NoFlags, skippedDefined |-> TRUE]
    ELSE [confirmed |-> file.confirmed, skipped |-> file.skipped,
          skippedDefined |-> file.format = "full"]

\* JSON.stringify(confirmations) as the next content of the file
stringified(confirmations) ==
    ConfirmationFile(IF confirmations.skippedDefined THEN "full" ELSE "confirmedOnly",
                     confirmations.confirmed, confirmations.skipped)

\* updateStageConfirmation: the file it writes
updateStageConfirmation(file, stage_, confirmed) ==
    LET confirmations == getWorkflowConfirmations(file)
    IN  stringified([confirmations EXCEPT !.confirmed[stage_] = confirmed])

\* confirmations.skipped[stage] throws a TypeError without a skipped map
skippedThrows(file) == ~getWorkflowConfirmations(file).skippedDefined

\* a faulty updateStageSkipped: the flag of the stage is toggled
updateStageSkipped_toggling(file, stage_, skipped) ==
    LET confirmations == getWorkflowConfirmations(file)
    IN  stringified([confirmations EXCEPT !.skipped[stage_] = ~@])

\* updateStageSkipped: the file it writes, when it does not throw
updateStageSkipped(file, stage_, skipped) ==
    LET confirmations == getWorkflowConfirmations(file)
    IN  stringified([confirmations EXCEPT !.skipped[stage_] = skipped])

isStageConfirmed(file, stage_) == getWorkflowConfirmations(file).confirmed[stage_]

\* a faulty isStageSkipped: no stage is ever skipped
isStageSkipped_never(file, stage_) == FALSE

\* isStageSkipped, when it does not throw
isStageSkipped(file, stage_) == getWorkflowConfirmations(file).skipped[stage_]

\* !isStageConfirmed(path, s) && !isStageSkipped(path, s):
\* "true", "false", or "TypeError" when the second call throws
notPassed(file, stage_) ==
    IF isStageConfirmed(file, stage_) THEN "false"
    ELSE IF skippedThrows(file) THEN "TypeError"
    ELSE IF isStageSkipped(file, stage_) THEN "false"
    ELSE "true"

\* getCurrentStage(status, path): status tells which documents exist,
\* withPath whether a path is given; "TypeError" when the call throws
getCurrentStage(status, withPath, file) ==
    IF ~withPath
    THEN IF status["requirements"] THEN "requirements"
         ELSE IF status["design"] THEN "design"
         ELSE IF status["tasks"] THEN "tasks"
         ELSE "completed"
    ELSE IF notPassed(file, "requirements") # "false"
         THEN (IF notPassed(file, "requirements") = "true"
               THEN "requirements" ELSE "TypeError")
    ELSE IF notPassed(file, "design") # "false"
         THEN (IF notPassed(file, "design") = "true" THEN "design" ELSE "TypeError")
    ELSE IF notPassed(file, "tasks") # "false"
         THEN (IF notPassed(file, "tasks") = "true" THEN "tasks" ELSE "TypeError")
    ELSE "completed"

(***************************************************************************)
(* State.                                                                  *)
(***************************************************************************)
VARIABLES
    tasksFile,          \* the content of tasks.md
    pc,                 \* "idle" | "executing" | "returned"
    taskNumbers,        \* the argument of the running call
    originalContent,    \* completeBatchTasks locals
    currentContent,
    sortedTaskNumbers,  \* the part of the sorted list not yet processed
    actuallyCompleted,
    alreadyCompleted,
    response,           \* the BatchCompleteTaskResponse returned
    written,            \* the texts writeFileSync stored during the call
    confirmationFile,   \* the content of .workflow-confirmations.json
    stage,              \* the last call on the stage store and its outcome
    forest,             \* the tasks parseTasksFile returned
    calls,              \* the number of calls of completeTask that have returned
    issued,             \* the calls of completeTask not yet started
    initialFile,        \* tasks.md and the calls when the first call is issued
    awaiting            \* the calls suspended at an await, oldest first

taskVars == <<tasksFile, pc, taskNumbers, originalContent, currentContent,
              sortedTaskNumbers, actuallyCompleted, alreadyCompleted, response,
              written>>

stageVars == <<confirmationFile, stage>>

parseVars == <<forest>>

concVars == <<calls, issued, initialFile, awaiting>>

vars == <<taskVars, stageVars, parseVars, concVars>>

NoCall == [call |-> "none", withPath |-> FALSE, value |-> "none"]

TaskInit ==
    /\ pc = "idle"
    /\ taskNumbers = <<>>
    /\ originalContent = <<>>
    /\ currentContent = <<>>
    /\ sortedTaskNumbers = <<>>
    /\ actuallyCompleted = <<>>
    /\ alreadyCompleted = <<>>
    /\ response = NoResult
    /\ written = <<>>
    /\ forest = <<>>
    /\ calls = 0
    /\ awaiting = <<>>

\* no concurrent calls are issued
NoneIssued ==
    /\ issued = <<>>
    /\ initialFile = [content |-> <<>>, calls |-> <<>>]

StageInit ==
    /\ stage = NoCall

Init ==
    /\ tasksFile \in Documents
    /\ TaskInit
    /\ NoneIssued
    /\ confirmationFile = ConfirmationFile("absent", NoFlags, NoFlags)
    /\ StageInit

(***************************************************************************)
(* completeTask -> completeBatchTasks, one action per branch and per       *)
(* iteration of the execution loop.                                        *)
(***************************************************************************)
\* the call once the file is read and parsed: the numbers are classified,
\* and the call returns early or enters the execution phase
Classified(ns, tasks, cannot, can, done) ==
    /\ taskNumbers' = ns
    /\ originalContent' = tasksFile
    /\ written' = <<>>
    /\ UNCHANGED <<tasksFile, stageVars, parseVars>>
    /\ IF cannot # <<>>
       THEN \* some number cannot be completed: the batch is refused
            /\ pc' = "returned"
            /\ response' = [success |-> FALSE, completedTasks |-> <<>>,
                            alreadyCompleted |-> <<>>, failedTasks |-> cannot,
                            nextTask |-> <<>>]
            /\ UNCHANGED <<currentContent, sortedTaskNumbers,
                           actuallyCompleted, alreadyCompleted>>
       ELSE IF can = <<>> /\ done # <<>>
       THEN \* nothing to complete, something already completed
            /\ pc' = "returned"
            /\ alreadyCompleted' = done
            /\ response' = [success |-> TRUE, completedTasks |-> <<>>,
                            alreadyCompleted |-> done, failedTasks |-> <<>>,
                            nextTask |-> nextTaskIn(tasks)]
            /\ UNCHANGED <<currentContent, sortedTaskNumbers, actuallyCompleted>>
       ELSE \* the execution phase starts with the numbers sorted
            /\ pc' = "executing"
            /\ currentContent' = tasksFile
            /\ alreadyCompleted' = done
            /\ sortedTaskNumbers' = sortedTaskNumbersOf(can)
            /\ actuallyCompleted' = <<>>
            /\ response' = NoResult

\* the parse of the file the call reads, classified
ParsedBatch(ns, tasks) ==
    Classified(ns, tasks, cannotBeCompletedOf(tasks, ns), canBeCompletedOf(tasks, ns),
               alreadyCompletedOf(tasks, ns))

\* the call up to the execution phase
StartBatch(ns) ==
    /\ pc = "idle"
    /\ ParsedBatch(ns, tasksOf(tasksFile))
    /\ UNCHANGED concVars

\* a faulty iteration: the file is saved as soon as a number is marked
MarkNext_savingEachStep ==
    /\ pc = "executing"
    /\ sortedTaskNumbers # <<>>
    /\ LET updatedContent == markTaskAsCompleted(currentContent, Head(sortedTaskNumbers))
       IN  /\ updatedContent # <<>>
           /\ currentContent' = updatedContent
           /\ tasksFile' = updatedContent
           /\ written' = Append(written, updatedContent)
    /\ actuallyCompleted' = Append(actuallyCompleted, Head(sortedTaskNumbers))
    /\ sortedTaskNumbers' = Tail(sortedTaskNumbers)
    /\ UNCHANGED <<pc, taskNumbers, originalContent, alreadyCompleted, response,
                   stageVars, parseVars, concVars>>

\* one iteration of the loop whose markTaskAsCompleted succeeds
MarkNext ==
    /\ pc = "executing"
    /\ sortedTaskNumbers # <<>>
    /\ markTaskAsCompleted(currentContent, Head(sortedTaskNumbers)) # <<>>
    /\ currentContent' = markTaskAsCompleted(currentContent, Head(sortedTaskNumbers))
    /\ actuallyCompleted' = Append(actuallyCompleted, Head(sortedTaskNumbers))
    /\ sortedTaskNumbers' = Tail(sortedTaskNumbers)
    /\ UNCHANGED <<tasksFile, pc, taskNumbers, originalContent, alreadyCompleted,
                   response, written, stageVars, parseVars, concVars>>

\* a faulty catch block: the content with the flips made so far is saved
Rollback_keepingFlips ==
    /\ pc = "executing"
    /\ sortedTaskNumbers # <<>>
    /\ markTaskAsCompleted(currentContent, Head(sortedTaskNumbers)) = <<>>
    /\ IF actuallyCompleted # <<>>
       THEN /\ tasksFile' = currentContent
            /\ written' = Append(written, currentContent)
       ELSE UNCHANGED <<tasksFile, written>>
    /\ response' = [success |-> FALSE, completedTasks |-> <<>>,
                    alreadyCompleted |-> <<>>,
                    failedTasks |-> <<[taskNumber |-> "batch",
                                       reason |-> "could not be marked"]>>,
                    nextTask |-> <<>>]
    /\ pc' = "returned"
    /\ UNCHANGED <<taskNumbers, originalContent, currentContent, sortedTaskNumbers,
                   actuallyCompleted, alreadyCompleted, stageVars, parseVars, concVars>>

\* markTaskAsCompleted returns null: the throw and the catch block
Rollback ==
    /\ pc = "executing"
    /\ sortedTaskNumbers # <<>>
    /\ markTaskAsCompleted(currentContent, Head(sortedTaskNumbers)) = <<>>
    /\ IF actuallyCompleted # <<>>
       THEN /\ tasksFile' = originalContent
            /\ written' = Append(written, originalContent)
       ELSE UNCHANGED <<tasksFile, written>>
    /\ response' = [success |-> FALSE, completedTasks |-> <<>>,
                    alreadyCompleted |-> <<>>,
                    failedTasks |-> <<[taskNumber |-> "batch",
                                       reason |-> "could not be marked"]>>,
                    nextTask |-> <<>>]
    /\ pc' = "returned"
    /\ UNCHANGED <<taskNumbers, originalContent, currentContent, sortedTaskNumbers,
                   actuallyCompleted, alreadyCompleted, stageVars, parseVars, concVars>>

\* the loop is over: the file is saved when something was completed
SaveFile ==
    /\ pc = "executing"
    /\ sortedTaskNumbers = <<>>
    /\ IF actuallyCompleted # <<>>
       THEN /\ tasksFile' = currentContent
            /\ written' = Append(written, currentContent)
       ELSE UNCHANGED <<tasksFile, written>>
    /\ response' = [success |-> TRUE, completedTasks |-> actuallyCompleted,
                    alreadyCompleted |-> alreadyCompleted, failedTasks |-> <<>>,
                    nextTask |-> nextTaskOf(currentContent)]
    /\ pc' = "returned"
    /\ UNCHANGED <<taskNumbers, originalContent, currentContent, sortedTaskNumbers,
                   actuallyCompleted, alreadyCompleted, stageVars, parseVars, concVars>>

Next ==
    \/ \E ns \in Batches : StartBatch(ns)
    \/ MarkNext
    \/ Rollback
    \/ SaveFile

Spec == Init /\ [][Next]_vars

(***************************************************************************)
(* The stage store: one action per exported function.                      *)
(***************************************************************************)
UpdateStageConfirmation(stage_, confirmed) ==
    /\ confirmationFile' = updateStageConfirmation(confirmationFile, stage_, confirmed)
    /\ stage' = [call |-> "updateStageConfirmation", withPath |-> TRUE,
                 value |-> "void"]
    /\ UNCHANGED <<taskVars, parseVars, concVars>>

UpdateStageSkipped(stage_, skipped) ==
    /\ IF skippedThrows(confirmationFile)
       THEN /\ UNCHANGED confirmationFile
            /\ stage' = [call |-> "updateStageSkipped", withPath |-> TRUE,
                         value |-> "TypeError"]
       ELSE /\ confirmationFile' = updateStageSkipped(confirmationFile, stage_, skipped)
            /\ stage' = [call |-> "updateStageSkipped", withPath |-> TRUE,
                         value |-> "void"]
    /\ UNCHANGED <<taskVars, parseVars, concVars>>

GetCurrentStage(status, withPath) ==
    /\ stage' = [call |-> "getCurrentStage", withPath |-> withPath,
                 value |-> getCurrentStage(status, withPath, confirmationFile)]
    /\ UNCHANGED <<confirmationFile, taskVars, parseVars, concVars>>

StageStoreInit ==
    /\ tasksFile = <<>>
    /\ TaskInit
    /\ NoneIssued
    /\ confirmationFile \in InitialFiles
    /\ StageInit

StageStoreNext ==
    \/ \E s \in StageNames, b \in BOOLEAN : UpdateStageConfirmation(s, b)
    \/ \E s \in StageNames, b \in BOOLEAN : UpdateStageSkipped(s, b)
    \/ \E status \in Flags, withPath \in BOOLEAN : GetCurrentStage(status, withPath)

StageSpec == StageStoreInit /\ [][StageStoreNext]_vars

(***************************************************************************)
(* parseTasksFile: the file is read and parsed.                            *)
(***************************************************************************)
\* parseTasksFile(path); the files hold no template marker block and no
\* outer white space, so cleanContent is the content, and the empty file
\* gives [] without being parsed
ParseTasksFile ==
    /\ pc = "idle"
    /\ forest' = IF tasksFile = <<>> THEN <<>> ELSE parseTasksFromContent(tasksFile)
    /\ pc' = "parsed"
    /\ UNCHANGED <<tasksFile, taskNumbers, originalContent, currentContent,
                   sortedTaskNumbers, actuallyCompleted, alreadyCompleted, response,
                   written, stageVars, concVars>>

ParseInit ==
    /\ tasksFile \in ParserDocuments
    /\ TaskInit
    /\ NoneIssued
    /\ confirmationFile = ConfirmationFile("absent", NoFlags, NoFlags)
    /\ StageInit

ParseNext == ParseTasksFile

ParseSpec == ParseInit /\ [][ParseNext]_vars


(***************************************************************************)
(* Sequences of calls of completeTask.                                     *)
(***************************************************************************)
\* the locals of a call are dropped
Dropped ==
    /\ taskNumbers' = <<>>
    /\ originalContent' = <<>>
    /\ currentContent' = <<>>
    /\ sortedTaskNumbers' = <<>>
    /\ actuallyCompleted' = <<>>
    /\ alreadyCompleted' = <<>>
    /\ response' = NoResult
    /\ written' = <<>>

\* completeTask returns the batch result to its caller; calls is counted up
\* to MaxCalls
Returned(at) ==
    /\ pc = at
    /\ pc' = "idle"
    /\ Dropped
    /\ calls' = IF calls < MaxCalls THEN calls + 1 ELSE calls
    /\ UNCHANGED <<tasksFile, issued, initialFile, awaiting, stageVars, parseVars>>

\* the awaited batch result is returned, no other call being made meanwhile
Return == Returned("returned")

CallsNext ==
    \/ \E ns \in Batches : StartBatch(ns)
    \/ MarkNext
    \/ Rollback
    \/ SaveFile
    \/ Return

CallsSpec == Init /\ [][CallsNext]_vars

\* the task management loop: complete_task is called with the number of the
\* first uncompleted task of the file
NextTaskParsed(tasks) ==
    /\ getFirstUncompletedTask(tasks) # <<>>
    /\ ParsedBatch(<<getFirstUncompletedTask(tasks)[1].number>>, tasks)

CompleteNextTask ==
    /\ pc = "idle"
    /\ NextTaskParsed(tasksOf(tasksFile))
    /\ UNCHANGED concVars

LoopNext ==
    \/ CompleteNextTask
    \/ MarkNext
    \/ Rollback
    \/ SaveFile
    \/ Return

\* the caller goes on as long as a task is uncompleted
LoopSpec == Init /\ [][LoopNext]_vars /\ WF_vars(LoopNext)

(***************************************************************************)
(* Concurrent calls of completeTask in one process: a call runs until it   *)
(* awaits, and the calls that await are resumed in turn.                   *)
(***************************************************************************)
\* MaxCalls calls of at most MaxConcBatch numbers are issued on a file of at
\* most MaxConcLines lines
ConcInit ==
    /\ tasksFile \in {d \in Documents : Len(d) <= MaxConcLines}
    /\ TaskInit
    /\ issued \in [1..MaxCalls -> SeqsUpTo(TaskIds, MaxConcBatch) \ {<<>>}]
    /\ initialFile = [content |-> tasksFile, calls |-> issued]
    /\ confirmationFile = ConfirmationFile("absent", NoFlags, NoFlags)
    /\ StageInit

\* the next call enters completeTask and completeBatchTasks when no call runs
StartCall ==
    /\ pc = "idle"
    /\ issued # <<>>
    /\ ParsedBatch(Head(issued), tasksOf(tasksFile))
    /\ issued' = Tail(issued)
    /\ UNCHANGED <<calls, initialFile, awaiting>>

\* the running call is suspended with its locals and leaves the thread
Suspended ==
    /\ awaiting' = Append(awaiting,
          [pc |-> pc, taskNumbers |-> taskNumbers, originalContent |-> originalContent,
           currentContent |-> currentContent, sortedTaskNumbers |-> sortedTaskNumbers,
           actuallyCompleted |-> actuallyCompleted, alreadyCompleted |-> alreadyCompleted,
           response |-> response, written |-> written])
    /\ pc' = "idle"
    /\ Dropped
    /\ UNCHANGED <<tasksFile, calls, issued, initialFile, stageVars, parseVars>>

\* a faulty completeBatchTasks that awaits before it writes the file
Await_beforeWrite ==
    /\ \/ pc = "returned"
       \/ pc = "executing" /\ sortedTaskNumbers = <<>>
    /\ Suspended

\* completeTask awaits the promise of completeBatchTasks, which has run to
\* its return
Await ==
    /\ pc = "returned"
    /\ Suspended

\* the oldest suspended call goes on where it was suspended
Resume ==
    /\ pc = "idle"
    /\ awaiting # <<>>
    /\ pc' = IF Head(awaiting).pc = "returned" THEN "resumed" ELSE Head(awaiting).pc
    /\ taskNumbers' = Head(awaiting).taskNumbers
    /\ originalContent' = Head(awaiting).originalContent
    /\ currentContent' = Head(awaiting).currentContent
    /\ sortedTaskNumbers' = Head(awaiting).sortedTaskNumbers
    /\ actuallyCompleted' = Head(awaiting).actuallyCompleted
    /\ alreadyCompleted' = Head(awaiting).alreadyCompleted
    /\ response' = Head(awaiting).response
    /\ written' = Head(awaiting).written
    /\ awaiting' = Tail(awaiting)
    /\ UNCHANGED <<tasksFile, calls, issued, initialFile, stageVars, parseVars>>

\* the resumed call returns the batch result
Finish == Returned("resumed")

ConcNext ==
    \/ StartCall
    \/ MarkNext
    \/ Rollback
    \/ SaveFile
    \/ Await
    \/ Resume
    \/ Finish

ConcSpec == ConcInit /\ [][ConcNext]_vars

(***************************************************************************)
(* Vocabulary of the properties.                                           *)
(***************************************************************************)
\* every task of a forest: each root followed by its subtasks
RECURSIVE AllTasks(_)
AllTasks(tasks) ==
    IF tasks = <<>> THEN <<>>
    ELSE <<tasks[1]>> \o tasks[1].subtasks \o AllTasks(Tail(tasks))

\* the tasks that carry an id; the first one is the task the id names
Named(tasks, id) == SelectSeq(AllTasks(tasks), LAMBDA t : t.number = id)

HasUncheckedChild(t) == \E k \in 1..Len(t.subtasks) : ~t.subtasks[k].checked

IsAbsent(tasks, id) == Named(tasks, id) = <<>>

IsBlocked(tasks, id) ==
    /\ ~IsAbsent(tasks, id)
    /\ HasUncheckedChild(Named(tasks, id)[1])

IsCompleted(tasks, id) ==
    /\ ~IsAbsent(tasks, id)
    /\ Named(tasks, id)[1].checked

IsEligible(tasks, id) ==
    /\ ~IsAbsent(tasks, id)
    /\ ~Named(tasks, id)[1].checked
    /\ ~HasUncheckedChild(Named(tasks, id)[1])

\* the rejections a batch must get: one per absent or blocked id, in order
Rejections(tasks, ids) ==
    LET bad == SelectSeq(ids, LAMBDA id : IsAbsent(tasks, id) \/ IsBlocked(tasks, id))
    IN  [k \in 1..Len(bad) |->
            [taskNumber |-> bad[k],
             reason     |-> IF IsAbsent(tasks, bad[k]) THEN "Task does not exist"
                            ELSE "Has uncompleted subtasks"]]

Range(s) == {s[k] : k \in 1..Len(s)}

\* the parse of the document the running call has read
parsedOriginal == tasksOf(originalContent)

\* the number of the task line i of a text, "" when line i is no task line
NumberAt(content, i) ==
    IF IsTaskLine(content, i) THEN ScannedLines[content[i]].number ELSE ""

\* line i of a text is a task line whose checkbox is checked
CheckedAt(content, i) == IsTaskLine(content, i) /\ ScannedLines[content[i]].checked

(***************************************************************************)
(* C1: a batch with an id that names no task, or that names a task with an *)
(* unchecked direct child, fails as a whole: the rejections are exactly    *)
(* those ids with their reasons, nothing is completed, no line is flipped  *)
(* and tasks.md is not written, whatever the other ids are.                *)
(***************************************************************************)
C1_AllOrNothing ==
    (pc = "returned" /\ Rejections(parsedOriginal, taskNumbers) # <<>>) =>
        /\ ~response.success
        /\ response.failedTasks = Rejections(parsedOriginal, taskNumbers)
        /\ response.completedTasks = <<>>
        /\ tasksFile = originalContent
        /\ written = <<>>

\* a refused batch in which another id was eligible on its own
C1_RefusedWithEligibleId ==
    /\ pc = "returned"
    /\ \E id \in Range(taskNumbers) : IsBlocked(parsedOriginal, id)
    /\ \E id \in Range(taskNumbers) : IsEligible(parsedOriginal, id)
    /\ ~response.success

(***************************************************************************)
(* C2: when every id passed its precondition and marking one of them       *)
(* flips no line, the flips made for the ids before it are dropped: the    *)
(* file is the one the call read, the call fails, completes nothing and    *)
(* reports the single rejection 'batch'.                                   *)
(***************************************************************************)
FailedToMark ==
    /\ pc = "returned"
    /\ Rejections(parsedOriginal, taskNumbers) = <<>>
    /\ sortedTaskNumbers # <<>>
    /\ markTaskAsCompleted(currentContent, Head(sortedTaskNumbers)) = <<>>

C2_Rollback ==
    FailedToMark =>
        /\ tasksFile = originalContent
        /\ ~response.success
        /\ response.completedTasks = <<>>
        /\ Len(response.failedTasks) = 1
        /\ response.failedTasks[1].taskNumber = "batch"

\* a failure after lines were flipped for earlier ids
C2_RolledBackAfterFlips ==
    /\ FailedToMark
    /\ actuallyCompleted # <<>>
    /\ currentContent # originalContent

(***************************************************************************)
(* C3: at every step of a call the file holds the text the call read or    *)
(* that text with every eligible id of the batch applied, and nothing else *)
(* is ever written.                                                        *)
(***************************************************************************)
FullyApplied ==
    markedInTurn(originalContent,
                 sortedTaskNumbersOf(SelectSeq(taskNumbers,
                                               LAMBDA id : IsEligible(parsedOriginal, id))))

C3_NeverPartial ==
    pc # "idle" =>
        /\ tasksFile \in {originalContent, FullyApplied}
        /\ \A k \in 1..Len(written) : written[k] \in {originalContent, FullyApplied}

\* in the middle of a batch: some flips made in memory, some ids left
C3_MidBatch ==
    /\ pc = "executing"
    /\ actuallyCompleted # <<>>
    /\ sortedTaskNumbers # <<>>
    /\ currentContent # originalContent
    /\ tasksFile = originalContent

(***************************************************************************)
(* C4: a non-empty batch whose ids are all found and completed succeeds    *)
(* with nothing completed, its ids reported as already completed, the file *)
(* untouched and nothing written; and running this batch a second time, on *)
(* the file the first run left, again succeeds and changes nothing.        *)
(***************************************************************************)
\* the call has returned from a non-empty batch of ids that were all found
\* and completed in the parse of the document it read
ReplayedCompleted ==
    /\ pc = "returned"
    /\ taskNumbers # <<>>
    /\ \A id \in Range(taskNumbers) : IsCompleted(parsedOriginal, id)

C4_Idempotence ==
    ReplayedCompleted =>
        /\ response.success
        /\ response.completedTasks = <<>>
        /\ response.alreadyCompleted = taskNumbers
        /\ tasksFile = originalContent
        /\ written = <<>>
        /\ LET again == completeBatchTasks(tasksFile, taskNumbers)
           IN  /\ again.success
               /\ again.completedTasks = <<>>
               /\ again.tasksFile = tasksFile

\* a replay of two completed ids, one of them a root completed through its
\* subtasks
C4_ReplayedRootAndSubtask ==
    /\ ReplayedCompleted
    /\ Len(taskNumbers) = 2
    /\ \E id \in Range(taskNumbers) : Named(parsedOriginal, id)[1].subtasks # <<>>
    /\ \E id \in Range(taskNumbers) : IsSubtaskNumber(id)

(***************************************************************************)
(* C5: on every path of a call, a text is written to tasks.md only if it   *)
(* differs from the text the call read.                                    *)
(***************************************************************************)
C5_NoNoOpWrite ==
    \A k \in 1..Len(written) : written[k] # originalContent

(***************************************************************************)
(* C6: for a root with an unchecked line of its own and children with      *)
(* two-segment ids, a batch of eligible ids that includes every unchecked  *)
(* child of the root checks the lines of these children and the line of    *)
(* the root in the same call; and when no other task is unchecked the call *)
(* reports no next task.                                                   *)
(***************************************************************************)
\* root r of the parse is a root as C6 describes it, no id of its family is
\* carried by two tasks, and the batch holds each of its unchecked children
AutoCompletes(r) ==
    LET R == parsedOriginal[r]
    IN  /\ ~R.isVirtual
        /\ Len(Named(parsedOriginal, R.number)) = 1
        /\ \E i \in 1..Len(originalContent) :
              NumberAt(originalContent, i) = R.number /\ ~CheckedAt(originalContent, i)
        /\ \A k \in 1..Len(R.subtasks) :
              /\ Depth(R.subtasks[k].number) = 2
              /\ Len(Named(parsedOriginal, R.subtasks[k].number)) = 1
        /\ HasUncheckedChild(R)
        /\ \A k \in 1..Len(R.subtasks) :
              ~R.subtasks[k].checked => R.subtasks[k].number \in Range(taskNumbers)

\* the lines of root r and of its children
FamilyLines(r) ==
    {i \in 1..Len(originalContent) :
        /\ NumberAt(originalContent, i) # ""
        /\ parentNumberOf(NumberAt(originalContent, i)) = parsedOriginal[r].number}

C6_ParentAutoCompletion ==
    (pc = "returned" /\ Rejections(parsedOriginal, taskNumbers) = <<>>) =>
        \A r \in 1..Len(parsedOriginal) :
            AutoCompletes(r) =>
                /\ \A i \in FamilyLines(r) : CheckedAt(tasksFile, i)
                /\ (\A q \in 1..Len(parsedOriginal) : q # r => parsedOriginal[q].checked)
                   => response.nextTask = <<>>

(***************************************************************************)
(* C7, as stated: with root 2 and its unchecked child 2.1, the batch       *)
(* [2, 2.1] is not blocked: 2.1 is flipped first and both lines end up     *)
(* checked.                                                                *)
(***************************************************************************)
\* the call is completeBatch(D, [2, 2.1]) on a document where root 2 has
\* the unchecked child 2.1 and no other unchecked child
ParentListedFirst ==
    /\ pc = "returned"
    /\ taskNumbers = <<"2", "2.1">>
    /\ \E r \in 1..Len(parsedOriginal) :
          /\ parsedOriginal[r].number = "2"
          /\ ~parsedOriginal[r].isVirtual
          /\ Len(Named(parsedOriginal, "2")) = 1
          /\ \A k \in 1..Len(parsedOriginal[r].subtasks) :
                ~parsedOriginal[r].subtasks[k].checked
                    <=> parsedOriginal[r].subtasks[k].number = "2.1"
          /\ HasUncheckedChild(parsedOriginal[r])

IsAffix(id, n) ==
    LET a == chars(id)
        b == chars(n)
    IN  /\ Len(a) < Len(b)
        /\ \/ SubSeq(b, 1, Len(a)) = a
           \/ SubSeq(b, Len(b) - Len(a) + 1, Len(b)) = a

\* line i is the line of a root that is not asked for and whose id has an
\* id of the batch as an affix
AffixLine(i) ==
    /\ NumberAt(originalContent, i) # ""
    /\ ~IsSubtaskNumber(NumberAt(originalContent, i))
    /\ NumberAt(originalContent, i) \notin Range(taskNumbers)
    /\ \E id \in Range(taskNumbers) :
          ~IsSubtaskNumber(id) /\ IsAffix(id, NumberAt(originalContent, i))

C8_IdBoundary ==
    pc # "idle" =>
        \A i \in 1..Len(originalContent) :
            AffixLine(i) =>
                /\ tasksFile[i] = originalContent[i]
                /\ pc = "executing" => currentContent[i] = originalContent[i]

\* task 1 was completed in a document that holds the unchecked task 11
C8_CompletedBesideAffix ==
    /\ pc = "returned"
    /\ response.success
    /\ "1" \in Range(response.completedTasks)
    /\ \E i \in 1..Len(originalContent) :
          /\ AffixLine(i)
          /\ NumberAt(originalContent, i) = "11"
          /\ ~CheckedAt(tasksFile, i)

(***************************************************************************)
(* C9: the ids of a batch are applied deeper first and, at equal depth, in *)
(* ascending string order, so every permutation of the id list gives the   *)
(* same sequence of completions and the same document.                     *)
(***************************************************************************)
IsPermutation(p, q) ==
    /\ Len(p) = Len(q)
    /\ \A x \in Range(p) \cup Range(q) :
          Cardinality({k \in 1..Len(p) : p[k] = x})
              = Cardinality({k \in 1..Len(q) : q[k] = x})

\* a is applied no later than b
AppliedBefore(a, b) ==
    \/ Depth(a) > Depth(b)
    \/ Depth(a) = Depth(b) /\ ~LocaleLess(chars(b), chars(a))

C9_DeterministicOrder ==
    pc = "returned" =>
        /\ \A i, j \in 1..Len(actuallyCompleted) :
              i < j => AppliedBefore(actuallyCompleted[i], actuallyCompleted[j])
        /\ \A p \in Batches :
              IsPermutation(p, taskNumbers) =>
                  /\ completeBatchTasks(originalContent, p).completedTasks
                        = response.completedTasks
                  /\ completeBatchTasks(originalContent, p).tasksFile = tasksFile

\* two ids of equal depth were given in descending order and applied in
\* ascending order
C9_AppliedInAnotherOrder ==
    /\ pc = "returned"
    /\ response.success
    /\ Len(taskNumbers) = 2
    /\ response.completedTasks = <<taskNumbers[2], taskNumbers[1]>>
    /\ Depth(taskNumbers[1]) = Depth(taskNumbers[2])
    /\ taskNumbers[1] # taskNumbers[2]

(***************************************************************************)
(* C10: getCurrentStage with a path returns the first of requirements,     *)
(* design, tasks that is neither confirmed nor skipped, and completed      *)
(* exactly when each of the three is confirmed or skipped.                 *)
(***************************************************************************)
StageOrder == <<"requirements", "design", "tasks">>

\* the stage is confirmed or skipped in the record read from the file
Passed(file, s) ==
    \/ getWorkflowConfirmations(file).confirmed[s]
    \/ getWorkflowConfirmations(file).skipped[s]

\* the first stage of the order that is not passed, completed if none
FirstNotPassed(file) ==
    LET open == {k \in 1..Len(StageOrder) : ~Passed(file, StageOrder[k])}
    IN  IF open = {} THEN "completed" ELSE StageOrder[Min(open)]

\* getCurrentStage was called with a path on a record that has both maps
ResolvedWithPath ==
    /\ stage.call = "getCurrentStage"
    /\ stage.withPath
    /\ getWorkflowConfirmations(confirmationFile).skippedDefined

C10_CurrentStage ==
    ResolvedWithPath =>
        /\ stage.value = FirstNotPassed(confirmationFile)
        /\ stage.value = "completed"
              <=> \A s \in StageNames : Passed(confirmationFile, s)

\* with only requirements confirmed the stage is design
C10_DesignAfterRequirements ==
    /\ ResolvedWithPath
    /\ confirmationFile.format = "full"
    /\ confirmationFile.confirmed =
          [s \in StageNames |-> s = "requirements"]
    /\ confirmationFile.skipped = NoFlags
    /\ stage.value = "design"

(***************************************************************************)
(* The stage machine under updates of the store.                           *)
(***************************************************************************)
\* what getCurrentStage(status, path) gives for a file, whatever the status
currentStageOf(file) == getCurrentStage(NoFlags, TRUE, file)

AllStages == <<"requirements", "design", "tasks", "completed">>

IsStage(v) == \E k \in 1..Len(AllStages) : AllStages[k] = v

\* the place of a stage in requirements < design < tasks < completed
StageRank(v) == CHOOSE k \in 1..Len(AllStages) : AllStages[k] = v

\* the step is an update of the store, made while getCurrentStage returns a
\* stage before it and after it
UpdateBetweenStages ==
    /\ stage'.call \in {"updateStageConfirmation", "updateStageSkipped"}
    /\ IsStage(currentStageOf(confirmationFile))
    /\ IsStage(currentStageOf(confirmationFile'))

\* the step confirms or skips a stage (the flag given is true)
ConfirmsOrSkips ==
    \E s \in StageNames : UpdateStageConfirmation(s, TRUE) \/ UpdateStageSkipped(s, TRUE)

NotEarlier ==
    StageRank(currentStageOf(confirmationFile'))
        >= StageRank(currentStageOf(confirmationFile))

ConfirmsPassed(s) == Passed(confirmationFile, s) /\ UpdateStageConfirmation(s, TRUE)

SkipsPassed(s) == Passed(confirmationFile, s) /\ UpdateStageSkipped(s, TRUE)

\* the step confirms stage s, and confirming it once more writes the same file
ConfirmedOnce(s) ==
    UpdateStageConfirmation(s, TRUE)
        => updateStageConfirmation(confirmationFile', s, TRUE) = confirmationFile'

\* the step skips stage s, and skipping it once more writes the same file
SkippedOnce(s) ==
    UpdateStageSkipped(s, TRUE) /\ stage'.value = "void"
        => updateStageSkipped(confirmationFile', s, TRUE) = confirmationFile'

\* C12: a confirm or a skip of a stage that is already passed succeeds and
\* leaves the current stage as it was, and a confirm or a skip applied a
\* second time leaves the record the first one left.
C12_IdempotentTransitions ==
    [][\A s \in StageNames :
          /\ ConfirmsPassed(s) \/ SkipsPassed(s)
                => /\ stage'.value = "void"
                   /\ currentStageOf(confirmationFile') = currentStageOf(confirmationFile)
          /\ ConfirmedOnce(s)
          /\ SkippedOnce(s)]_vars

\* the record getWorkflowConfirmations reads holds both maps, and a flag the
\* file lacks is false in it
ReadsRecord(file) ==
    /\ getWorkflowConfirmations(file).skippedDefined
    /\ file.format \in {"absent", "invalid"}
          => /\ getWorkflowConfirmations(file).confirmed = NoFlags
             /\ getWorkflowConfirmations(file).skipped = NoFlags

\* C13: whatever the confirmations file holds (nothing, no JSON, the flat
\* format, a record without one of its maps), reading it gives a record
\* whose missing flags are false, getCurrentStage returns one of the four
\* stages without raising, and it returns requirements when there is no file.
C13_TotalResolver ==
    stage.call = "getCurrentStage" /\ stage.withPath
        => /\ ReadsRecord(confirmationFile)
           /\ IsStage(stage.value)
           /\ confirmationFile.format = "absent" => stage.value = "requirements"

(***************************************************************************)
(* The next task.                                                          *)
(***************************************************************************)
\* the tasks of a forest in the order getFirstUncompletedTask looks at them:
\* root after root, the subtasks of a root before the root
RECURSIVE Unfolded(_)
Unfolded(tasks) ==
    IF tasks = <<>> THEN <<>>
    ELSE tasks[1].subtasks \o <<tasks[1]>> \o Unfolded(Tail(tasks))

Unchecked(tasks) == SelectSeq(tasks, LAMBDA t : ~t.checked)

\* the first unchecked task of that order, <<>> if there is none
FirstUnchecked(tasks) ==
    IF Unchecked(Unfolded(tasks)) = <<>> THEN <<>>
    ELSE <<Unchecked(Unfolded(tasks))[1]>>

\* the roots of a forest are in the order of their numbers
RootsSorted(tasks) ==
    \A j, k \in 1..Len(tasks) :
        j < k => ParseInt(chars(tasks[j].number)) <= ParseInt(chars(tasks[k].number))

\* a successful call has returned: its nextTask is read from the file it left
ReturnedNext == pc = "returned" /\ response.success

\* C14: over the sorted roots getFirstUncompletedTask returns, at the first
\* root that is not complete, its first unchecked subtask if it has one and
\* else the root: never a root with an unchecked subtask, never a task that
\* follows another unchecked task.
C14_FirstUncompleted ==
    LET tasks == tasksOf(tasksFile)
        first == getFirstUncompletedTask(tasks)
    IN  /\ RootsSorted(tasks)
        /\ first = FirstUnchecked(tasks)
        /\ first # <<>> => \A k \in 1..Len(first[1].subtasks) :
                               first[1].subtasks[k].checked
        /\ ReturnedNext => response.nextTask = nextTaskFrom(FirstUnchecked(tasks))

\* a batch has completed subtask 2.1, and the next task is subtask 2.2 of
\* the same unchecked root
C14_SubtaskBeforeRoot ==
    /\ ReturnedNext
    /\ actuallyCompleted = <<"2.1">>
    /\ response.nextTask # <<>>
    /\ response.nextTask[1].number = "2.2"
    /\ \E k \in 1..Len(tasksOf(tasksFile)) :
          tasksOf(tasksFile)[k].number = "2" /\ ~tasksOf(tasksFile)[k].checked

\* every childless root and every subtask of the forest is checked
ForestComplete(tasks) ==
    \A j \in 1..Len(tasks) :
        /\ tasks[j].subtasks = <<>> => tasks[j].checked
        /\ \A k \in 1..Len(tasks[j].subtasks) : tasks[j].subtasks[k].checked

\* C15: for every document, getFirstUncompletedTask on its parse is null
\* exactly when every childless root and every subtask of the forest is
\* checked.
C15_NullIffComplete ==
    /\ getFirstUncompletedTask(tasksOf(tasksFile)) = <<>>
          <=> ForestComplete(tasksOf(tasksFile))
    /\ ReturnedNext => (response.nextTask = <<>> <=> ForestComplete(tasksOf(tasksFile)))

\* a batch has completed the last unchecked tasks of a file with a root and
\* a subtask: there is no next task
C15_NothingLeft ==
    /\ ReturnedNext
    /\ actuallyCompleted # <<>>
    /\ response.nextTask = <<>>
    /\ \E k \in 1..Len(tasksOf(tasksFile)) : tasksOf(tasksFile)[k].subtasks # <<>>

(***************************************************************************)
(* The forest parseTasksFile returns.                                      *)
(***************************************************************************)
Parsed == pc = "parsed"

\* the tasks phase 1 scans in the file
Scanned == allTasksOf(tasksFile)

\* the places of the roots numbered n in the forest
RootsNumbered(n) == {j \in 1..Len(forest) : forest[j].number = n}

\* the scanned task k has a dotted number whose first segment no scanned
\* task has for its number
IsOrphan(k) ==
    /\ IsSubtaskNumber(Scanned[k].number)
    /\ \A j \in 1..Len(Scanned) : Scanned[j].number # parentNumberOf(Scanned[k].number)

\* the scanned tasks whose dotted number has first segment n, in file order
ScannedUnder(n) ==
    SelectSeq(Scanned, LAMBDA t : IsSubtaskNumber(t.number) /\ parentNumberOf(t.number) = n)

\* C16: for every scanned dotted number whose first segment is the number of
\* no scanned task, wherever in the file, the forest has exactly one root with
\* that first segment, it is virtual, and its subtasks are all the scanned
\* tasks with that first segment; the file with only 15.1 gives the one
\* virtual root 15 with the one subtask 15.1.
C16_OrphanSynthesis ==
    Parsed =>
        /\ \A k \in 1..Len(Scanned) :
              IsOrphan(k) =>
                  /\ Cardinality(RootsNumbered(parentNumberOf(Scanned[k].number))) = 1
                  /\ \A j \in RootsNumbered(parentNumberOf(Scanned[k].number)) :
                        /\ forest[j].isVirtual
                        /\ IsPermutation(forest[j].subtasks,
                                         ScannedUnder(parentNumberOf(Scanned[k].number)))
        /\ tasksFile = <<"- [ ] 15.1 A">> =>
              /\ Len(forest) = 1
              /\ forest[1].number = "15"
              /\ forest[1].isVirtual
              /\ Len(forest[1].subtasks) = 1
              /\ forest[1].subtasks[1].number = "15.1"

\* the file with only 15.1 is parsed, and the file with 15.2 before 15.1 too
C16_OnlyOrphans ==
    /\ Parsed
    /\ tasksFile \in {<<"- [ ] 15.1 A">>, <<"- [x] 15.2 A", "- [ ] 15.1 A">>}
    /\ \A k \in 1..Len(Scanned) : IsOrphan(k)
    /\ forest # <<>>

\* C17: in every forest parsed, a task that has subtasks is checked exactly
\* when all its subtasks are, whatever the checkbox of its own line holds.
C17_DerivedCompletion ==
    Parsed =>
        \A j \in 1..Len(forest) :
            forest[j].subtasks # <<>> =>
                (forest[j].checked
                    <=> \A k \in 1..Len(forest[j].subtasks) : forest[j].subtasks[k].checked)

\* a root whose line is checked over an unchecked subtask is parsed unchecked
C17_CheckedLineUncheckedRoot ==
    /\ Parsed
    /\ tasksFile = <<"- [x] 2. A", "- [ ] 2.1 A">>
    /\ Len(forest) = 1
    /\ ~forest[1].checked

\* no two roots have the same number, and no two subtasks of a root do
SiblingsUnique(tasks) ==
    /\ \A j, k \in 1..Len(tasks) : tasks[j].number = tasks[k].number => j = k
    /\ \A r \in 1..Len(tasks) :
          \A j, k \in 1..Len(tasks[r].subtasks) :
              tasks[r].subtasks[j].number = tasks[r].subtasks[k].number => j = k

\* the tasks of a forest that a line of the file gave
FromLines(tasks) == SelectSeq(AllTasks(tasks), LAMBDA t : ~t.isVirtual)

\* the number and the description of each task of a sequence
Labels(tasks) == [k \in 1..Len(tasks) |-> <<tasks[k].number, tasks[k].description>>]

\* C18, as stated: in every forest parsed no two roots have the same number
\* and no two subtasks of the same root have the same number.
C18_SiblingUniqueness == Parsed => SiblingsUnique(forest)

\* C18, as the code has it: every scanned task is kept in the forest, so the
\* numbers are unique among siblings exactly when no two scanned tasks have
\* the same number.
C18_DuplicatesRetained ==
    Parsed =>
        /\ IsPermutation(Labels(FromLines(forest)), Labels(Scanned))
        /\ SiblingsUnique(forest)
              <=> \A j, k \in 1..Len(Scanned) :
                      Scanned[j].number = Scanned[k].number => j = k

\* two lines with the number 1 are parsed into two roots numbered 1
C18_TwoRootsNumberedOne ==
    /\ Parsed
    /\ tasksFile = <<"- [ ] 1 A", "- [ ] 1 A">>
    /\ Len(forest) = 2
    /\ forest[1].number = forest[2].number

(***************************************************************************)
(* Lines that carry the same number.                                       *)
(***************************************************************************)
\* the unchecked task lines of a text that carry number id
UncheckedCarrying(content, id) ==
    {i \in 1..Len(content) : NumberAt(content, i) = id /\ ~CheckedAt(content, i)}

\* the lines the call has changed in the file
Flipped == {i \in 1..Len(originalContent) : tasksFile[i] # originalContent[i]}

\* C19: when two unchecked lines of the file carry the number a call
\* completes, the call flips exactly one of them, the earlier one.
C19_FirstMatchOnly ==
    pc = "returned" /\ response.success =>
        \A id \in Range(response.completedTasks) :
            Cardinality(UncheckedCarrying(originalContent, id)) >= 2 =>
                Flipped \cap UncheckedCarrying(originalContent, id)
                    = {Min(UncheckedCarrying(originalContent, id))}

(***************************************************************************)
(* The two orders of number and checkbox.                                  *)
(***************************************************************************)
\* line i of the file has number n, a dot and a dash right before its checkbox
NumberBeforeCheckbox(i, n) == taskPattern1(chars(tasksFile[i]), chars(n))

\* line i of the file has number n right after its checkbox
NumberAfterCheckbox(i, n) == numberMatch(chars(tasksFile[i])) = chars(n)

\* line i of the file is parsed as a task numbered n
ParsedAsTask(i, n) ==
    /\ IsTaskLine(tasksFile, i)
    /\ NumberAt(tasksFile, i) = n
    /\ \E k \in 1..Len(AllTasks(forest)) : AllTasks(forest)[k].number = n

\* C20: a checkbox line is parsed as a task with its number in both orders:
\* the number standing right before the checkbox, as in "1. - [ ] Title", and
\* the number following the checkbox.
C20_BothTokenOrders ==
    Parsed =>
        \A i \in 1..Len(tasksFile), n \in Numbers :
            NumberBeforeCheckbox(i, n) \/ NumberAfterCheckbox(i, n) => ParsedAsTask(i, n)

(***************************************************************************)
(* The order of the forest.                                                *)
(***************************************************************************)
\* the segments of a task number as integers
Segments(number) == [k \in 1..Len(Parts(number)) |-> ParseInt(Parts(number)[k])]

\* a comes before b segment by segment, a proper prefix before what extends it
SegmentsBefore(a, b) ==
    \E i \in 1..Len(b) :
        /\ i <= Len(a) + 1
        /\ \A k \in 1..(i - 1) : a[k] = b[k]
        /\ i = Len(a) + 1 \/ a[i] < b[i]

\* C21: in every forest parsed the roots are in ascending numeric order and
\* the subtasks of a root are in the segment-wise numeric order of their
\* numbers, a number that is a proper prefix of another (5.1 and 5.1.0)
\* before the longer one, whatever their order in the text.
C21_SortedForest ==
    Parsed =>
        /\ RootsSorted(forest)
        /\ \A r \in 1..Len(forest) :
              \A j, k \in 1..Len(forest[r].subtasks) :
                  j < k => ~SegmentsBefore(Segments(forest[r].subtasks[k].number),
                                           Segments(forest[r].subtasks[j].number))

(***************************************************************************)
(* What a successful batch changes.                                        *)
(***************************************************************************)
Succeeded == pc = "returned" /\ response.success

\* the numbers whose lines a batch may flip: the numbers it completes and
\* their parents, as the parser and as the engine name them
MayFlip ==
    Range(response.completedTasks)
        \cup {parentNumberOf(n) : n \in {m \in Range(response.completedTasks) :
                                            IsSubtaskNumber(m)}}
        \cup {parentNumber(n) : n \in Range(response.completedTasks)}

\* C22: a successful batch changes only the lines whose own number is
\* completed by it or is the parent of a number it completes; a line that
\* mentions such a number elsewhere, in its description or inside a longer
\* number, is left as it was.
C22_Frame ==
    Succeeded => \A i \in Flipped : NumberAt(originalContent, i) \in MayFlip

\* C23: when a batch succeeds, every number it reports as completed is
\* completed in the parse of the file it leaves.
C23_ReportedAreCompleted ==
    Succeeded =>
        \A id \in Range(response.completedTasks) : IsCompleted(tasksOf(tasksFile), id)

\* every subtask of the root numbered n is checked in the forest
SubtasksChecked(tasks, n) ==
    \A r \in 1..Len(tasks) :
        tasks[r].number = n =>
            \A k \in 1..Len(tasks[r].subtasks) : tasks[r].subtasks[k].checked

\* every task line numbered n is checked in the text
LinesChecked(content, n) ==
    \A i \in 1..Len(content) : NumberAt(content, i) = n => CheckedAt(content, i)

\* C24: the parent the engine looks at for a number it flips is the root the
\* parser put the number under, the one of its first segment, at every depth;
\* so a batch that flips the last unchecked subtask of a root, be it 5.1.1,
\* checks the line of the root too.
C24_SameParent ==
    Succeeded =>
        \A x \in Range(response.completedTasks) :
            IsSubtaskNumber(x) =>
                /\ parentNumber(x) = parentNumberOf(x)
                /\ SubtasksChecked(tasksOf(tasksFile), parentNumberOf(x))
                      => LinesChecked(tasksFile, parentNumberOf(x))

\* the call was made with the one number getFirstUncompletedTask gives for
\* the file it read
CalledWithNextTask ==
    /\ pc = "returned"
    /\ getFirstUncompletedTask(parsedOriginal) # <<>>
    /\ taskNumbers = <<getFirstUncompletedTask(parsedOriginal)[1].number>>

\* C25: the task getFirstUncompletedTask returns for a file can be completed:
\* the batch of its number succeeds, completes that number, and the line of
\* the task is checked in the file it leaves.
C25_NextTaskActionable ==
    CalledWithNextTask =>
        /\ response.success
        /\ response.completedTasks = taskNumbers
        /\ UncheckedCarrying(originalContent, taskNumbers[1]) # {}
        /\ \A i \in UncheckedCarrying(originalContent, taskNumbers[1]) :
              CheckedAt(tasksFile, i)

\* C27: a batch that names an eligible number twice succeeds and leaves the
\* file the batch naming it once leaves.
C27_BatchIsSet ==
    \A n \in TaskIds :
        (pc = "returned" /\ taskNumbers = <<n, n>> /\ IsEligible(parsedOriginal, n)) =>
            /\ response.success
            /\ completeBatchTasks(originalContent, <<n>>).success
            /\ tasksFile = completeBatchTasks(originalContent, <<n>>).tasksFile

(***************************************************************************)
(* Tasks that have subtasks.                                               *)
(***************************************************************************)
\* the task the number names in the parse the call made has subtasks
NamesParent(id) ==
    /\ ~IsAbsent(parsedOriginal, id)
    /\ Named(parsedOriginal, id)[1].subtasks # <<>>

\* line i of the text is the line of a task that the parser gives subtasks:
\* the last line of a main task with its number, some subtask having that
\* number for first segment
IsParentLine(content, i) ==
    /\ NumberAt(content, i) # ""
    /\ ~IsSubtaskNumber(NumberAt(content, i))
    /\ \A k \in (i + 1)..Len(content) : NumberAt(content, k) # NumberAt(content, i)
    /\ \E k \in 1..Len(content) :
          /\ NumberAt(content, k) # ""
          /\ IsSubtaskNumber(NumberAt(content, k))
          /\ parentNumberOf(NumberAt(content, k)) = NumberAt(content, i)

\* C28: a task that has a subtask is never eligible: the call takes it as
\* already completed when all its subtasks are checked and rejects it for
\* its uncompleted subtasks otherwise; so a successful batch completes only
\* tasks without subtasks, and the line of a task that has subtasks is
\* flipped only as the parent of a number that is completed.
C28_ParentsNeverEligible ==
    pc = "returned" =>
        /\ \A id \in Range(taskNumbers) :
              NamesParent(id) =>
                  /\ id \notin Range(response.completedTasks)
                  /\ IF HasUncheckedChild(Named(parsedOriginal, id)[1])
                     THEN \E k \in 1..Len(response.failedTasks) :
                              /\ response.failedTasks[k].taskNumber = id
                              /\ response.failedTasks[k].reason = "Has uncompleted subtasks"
                     ELSE response.success => id \in Range(response.alreadyCompleted)
        /\ \A i \in Flipped :
              IsParentLine(originalContent, i)
                  => NumberAt(originalContent, i) \notin Range(taskNumbers)

(***************************************************************************)
(* The task management loop.                                               *)
(***************************************************************************)
\* the number of unchecked tasks of a forest, subtasks included
UncheckedCount(tasks) == Len(Unchecked(Unfolded(tasks)))

\* no task of the file is left for the loop
LoopDone == pc = "idle" /\ getFirstUncompletedTask(tasksOf(tasksFile)) = <<>>

\* C26: the loop that completes the task getFirstUncompletedTask returns
\* terminates: every call leaves fewer unchecked tasks in the file than it
\* found, and the loop reaches a file for which the selector returns null.
C26_LoopTerminates ==
    /\ [](pc = "returned" =>
            UncheckedCount(tasksOf(tasksFile)) < UncheckedCount(parsedOriginal))
    /\ <>LoopDone

(***************************************************************************)
(* What a sequence of calls does to the lines of the file.                 *)
(***************************************************************************)
\* new is old with its first "[ ]" replaced by "[x]"
FirstBoxChecked(old, new) ==
    /\ Len(new) = Len(old)
    /\ \E p \in 1..Len(old) :
          /\ UncheckedAt(old, p)
          /\ \A q \in 1..(p - 1) : ~UncheckedAt(old, q)
          /\ new[p + 1] = "x"
          /\ \A k \in 1..Len(old) : k # p + 1 => new[k] = old[k]

\* C29: whatever calls are made, every step keeps the number of lines of
\* tasks.md, changes a line only by replacing its first "[ ]" by "[x]", and
\* leaves every checked line checked.
C29_MonotoneCheckboxes ==
    [][/\ Len(tasksFile') = Len(tasksFile)
       /\ \A i \in 1..Len(tasksFile) :
             /\ \/ tasksFile'[i] = tasksFile[i]
                \/ FirstBoxChecked(chars(tasksFile[i]), chars(tasksFile'[i]))
             /\ CheckedAt(tasksFile, i) => CheckedAt(tasksFile', i)]_vars

\* a call made after another one has returned flips a line of a file that
\* has a checked line
C29_LaterCallFlips ==
    /\ calls >= 1
    /\ pc = "returned"
    /\ Flipped # {}
    /\ \E i \in 1..Len(originalContent) : CheckedAt(originalContent, i)

(***************************************************************************)
(* Concurrent calls.                                                       *)
(***************************************************************************)
\* the file once the calls of ns are applied to content one after the other
RECURSIVE AppliedInTurn(_, _)
AppliedInTurn(content, ns) ==
    IF ns = <<>> THEN content
    ELSE AppliedInTurn(completeBatchTasks(content, Head(ns)).tasksFile, Tail(ns))

\* every call that was issued has returned
AllReturned == calls = MaxCalls /\ pc = "idle" /\ issued = <<>> /\ awaiting = <<>>

\* C30: a call does not leave the thread between its read and its write of
\* tasks.md: a suspended call has written already, and when the concurrent
\* calls have all returned the file is the one they give when applied one
\* after the other, so it holds the flips of each.
C30_CallsAppliedInTurn ==
    /\ \A k \in 1..Len(awaiting) : awaiting[k].pc = "returned"
    /\ AllReturned =>
          tasksFile = AppliedInTurn(initialFile.content, initialFile.calls)

\* two concurrent calls have returned and each has flipped a line
C30_BothFlipped ==
    /\ AllReturned
    /\ completeBatchTasks(initialFile.content, initialFile.calls[1]).tasksFile
          # initialFile.content
    /\ tasksFile
          # completeBatchTasks(initialFile.content, initialFile.calls[1]).tasksFile

====
